---------------------------- MODULE Spec2Model ----------------------------
(***************************************************************************)
(* A model of cmd/gentypes/gentypes.go, the generator of Go types from the *)
(* Debug Adapter Protocol JSON schema.                                     *)
(*                                                                         *)
(* JSON values are tagged records.  An object keeps its members as a       *)
(* sequence of <<key, value>> pairs, in source order and with duplicates,  *)
(* so that the order-preserving token walk (keysInOrder) and the decoded   *)
(* Go map (last duplicate wins, no order) are different things.            *)
(***************************************************************************)
EXTENDS Integers, Sequences, FiniteSets, TLC

(***************************************************************************)
(* JSON values and encoding/json's decoding of them                        *)
(***************************************************************************)
JStr(s) == [t |-> "string", s |-> s]
JNum(n) == [t |-> "number", n |-> n]
JNull == [t |-> "null"]
JArr(a) == [t |-> "array", a |-> a]
JObj(kv) == [t |-> "object", kv |-> kv]

\* A Go map decoded from an object: m[k] is present when some member has key k.
HasKey(o, k) == \E i \in 1..Len(o.kv) : o.kv[i][1] = k

\* m[k] of a Go map decoded from an object: the last member with that key.
Get(o, k) ==
  LET idx == {i \in 1..Len(o.kv) : o.kv[i][1] = k}
      last == CHOOSE i \in idx : \A j \in idx : j <= i
  IN  o.kv[last][2]

\* json.Unmarshal into a map: an object decodes, null leaves the nil map
\* (which reads as an empty map), any other value is an error.
UnmarshalMapOk(v) == v.t \in {"object", "null"}
UnmarshalMap(v) == IF v.t = "object" THEN v ELSE JObj(<<>>)

\* json.Unmarshal into a slice: an array decodes, null leaves the nil slice.
UnmarshalSliceOk(v) == v.t \in {"array", "null"}
UnmarshalSlice(v) == IF v.t = "array" THEN v.a ELSE <<>>

\* json.Unmarshal into a string: a string decodes, null leaves "".
UnmarshalStringOk(v) == v.t \in {"string", "null"}
UnmarshalString(v) == IF v.t = "string" THEN v.s ELSE ""

(***************************************************************************)
(* Results of functions that may end the process                           *)
(***************************************************************************)
Ret(v) == [ok |-> TRUE, v |-> v]
\* log.Fatal: the message goes to standard error, the process exits with 1.
Fatal(msg) == [ok |-> FALSE, how |-> "log.Fatal", msg |-> msg]
\* A failed type assertion: the runtime panics, the process exits with 2.
Panic(msg) == [ok |-> FALSE, how |-> "panic", msg |-> msg]

(***************************************************************************)
(* strings                                                                 *)
(***************************************************************************)
HasPrefix(s, prefix) ==
  Len(s) >= Len(prefix) /\ SubSeq(s, 1, Len(prefix)) = prefix

HasSuffix(s, suffix) ==
  Len(s) >= Len(suffix) /\ SubSeq(s, Len(s) - Len(suffix) + 1, Len(s)) = suffix

RefPrefix == "#/definitions/"
RefPrefixLen == 14

(***************************************************************************)
(* replaceGoTypename, parseRef                                             *)
(***************************************************************************)
replaceGoTypename(typeName) ==
  IF typeName = "Message" THEN "ErrorMessage" ELSE typeName

\* A faulty variant, used to test the properties: the name is not renamed.
parseRefNoRename(refValue) ==
  IF refValue.t # "string"
  THEN Panic("interface conversion: interface {} is not string")
  ELSE IF ~HasPrefix(refValue.s, RefPrefix)
       THEN Fatal("want ref to start with '#/definitions/'")
       ELSE Ret(SubSeq(refValue.s, RefPrefixLen + 1, Len(refValue.s)))

parseRef(refValue) ==
  IF refValue.t # "string"
  THEN Panic("interface conversion: interface {} is not string")
  ELSE IF ~HasPrefix(refValue.s, RefPrefix)
       THEN Fatal("want ref to start with '#/definitions/'")
       ELSE Ret(replaceGoTypename(
                  SubSeq(refValue.s, RefPrefixLen + 1, Len(refValue.s))))

(***************************************************************************)
(* parsePropertyType                                                       *)
(***************************************************************************)
RECURSIVE parsePropertyType(_)

\* A faulty variant, used to test the properties: "type" is consulted first
\* and "$ref" only when there is no "type".
parsePropertyTypeTypeFirst(propValue) ==
  IF ~HasKey(propValue, "type")
  THEN IF HasKey(propValue, "$ref")
       THEN parseRef(Get(propValue, "$ref"))
       ELSE Fatal("property with no type or ref")
  ELSE
    LET propType == Get(propValue, "type") IN
    CASE propType.t = "string" ->
           CASE propType.s = "string" -> Ret("string")
             [] propType.s = "integer" -> Ret("int")
             [] propType.s = "boolean" -> Ret("bool")
             [] propType.s = "array" ->
                  IF ~HasKey(propValue, "items")
                  THEN Fatal("missing items type for property of array type")
                  ELSE LET propItems == Get(propValue, "items") IN
                       IF propItems.t # "object"
                       THEN Panic("interface conversion: not map[string]interface {}")
                       ELSE LET inner == parsePropertyType(propItems) IN
                            IF inner.ok THEN Ret("[]" \o inner.v) ELSE inner
             [] propType.s = "object" ->
                  IF ~HasKey(propValue, "additionalProperties")
                  THEN Fatal("missing additionalProperties field when type=object")
                  ELSE LET additionalProps == Get(propValue, "additionalProperties") IN
                       IF additionalProps.t # "object"
                       THEN Panic("interface conversion: not map[string]interface {}")
                       ELSE LET valueType == parsePropertyType(additionalProps) IN
                            IF valueType.ok
                            THEN Ret("map[string]" \o valueType.v)
                            ELSE valueType
             [] OTHER -> Fatal("unknown property type value")
      [] propType.t = "array" -> Ret("interface{}")
      [] OTHER -> Fatal("unknown property type")

parsePropertyType(propValue) ==
  IF HasKey(propValue, "$ref")
  THEN parseRef(Get(propValue, "$ref"))
  ELSE IF ~HasKey(propValue, "type")
  THEN Fatal("property with no type or ref")
  ELSE
    LET propType == Get(propValue, "type") IN
    CASE propType.t = "string" ->
           CASE propType.s = "string" -> Ret("string")
             [] propType.s = "integer" -> Ret("int")
             [] propType.s = "boolean" -> Ret("bool")
             [] propType.s = "array" ->
                  IF ~HasKey(propValue, "items")
                  THEN Fatal("missing items type for property of array type")
                  ELSE LET propItems == Get(propValue, "items") IN
                       IF propItems.t # "object"
                       THEN Panic("interface conversion: not map[string]interface {}")
                       ELSE LET inner == parsePropertyType(propItems) IN
                            IF inner.ok THEN Ret("[]" \o inner.v) ELSE inner
             [] propType.s = "object" ->
                  IF ~HasKey(propValue, "additionalProperties")
                  THEN Fatal("missing additionalProperties field when type=object")
                  ELSE LET additionalProps == Get(propValue, "additionalProperties") IN
                       IF additionalProps.t # "object"
                       THEN Panic("interface conversion: not map[string]interface {}")
                       ELSE LET valueType == parsePropertyType(additionalProps) IN
                            IF valueType.ok
                            THEN Ret("map[string]" \o valueType.v)
                            ELSE valueType
             [] OTHER -> Fatal("unknown property type value")
      [] propType.t = "array" -> Ret("interface{}")
      [] OTHER -> Fatal("unknown property type")


(***************************************************************************)
(* goFieldName                                                             *)
(***************************************************************************)
LowerLetters == "abcdefghijklmnopqrstuvwxyz"
UpperLetters == "ABCDEFGHIJKLMNOPQRSTUVWXYZ"
DigitChars == "0123456789"

CharAt(s, i) == SubSeq(s, i, i)
CharsOf(s) == {CharAt(s, i) : i \in 1..Len(s)}

\* unicode.ToTitle on an ASCII character.
ToTitle(c) ==
  IF c \in CharsOf(LowerLetters)
  THEN CharAt(UpperLetters, CHOOSE i \in 1..Len(LowerLetters) : CharAt(LowerLetters, i) = c)
  ELSE c

\* The ASCII characters strings.isSeparator takes for part of a word:
\* letters, digits and the underscore.  Every other character separates.
WordChars ==
  CharsOf(LowerLetters) \cup CharsOf(UpperLetters) \cup CharsOf(DigitChars) \cup {"_"}

isSeparator(c) == c \notin WordChars

\* strings.ReplaceAll(s, old, new) for a one-character old.
RECURSIVE ReplaceAll(_, _, _)
ReplaceAll(s, old, new) ==
  IF s = "" THEN ""
  ELSE (IF CharAt(s, 1) = old THEN new ELSE CharAt(s, 1))
       \o ReplaceAll(SubSeq(s, 2, Len(s)), old, new)

\* strings.Title: the first letter of every word in title case.
RECURSIVE TitleFrom(_, _)
TitleFrom(s, prev) ==
  IF s = "" THEN ""
  ELSE (IF isSeparator(prev) THEN ToTitle(CharAt(s, 1)) ELSE CharAt(s, 1))
       \o TitleFrom(SubSeq(s, 2, Len(s)), CharAt(s, 1))

Title(s) == TitleFrom(s, " ")

goFieldName(jsonPropName) ==
  LET clean == ReplaceAll(jsonPropName, "_", " ")
      titled == Title(clean)
  IN  ReplaceAll(titled, " ", "")

(***************************************************************************)
(* json.Decoder.Token, skipValue, keysInOrder                              *)
(*                                                                         *)
(* The decoder is a token sequence and a position.  A delimiter token and  *)
(* a string token with the same text are different tokens, as json.Delim   *)
(* and string are different Go types.                                      *)
(***************************************************************************)
Delim(c) == [k |-> "delim", c |-> c]
StringTok(s) == [k |-> "string", s |-> s]
NumberTok(n) == [k |-> "number", n |-> n]
NullTok == [k |-> "null"]

RECURSIVE Tokens(_)
RECURSIVE MemberTokens(_, _)
RECURSIVE ElementTokens(_, _)

\* The tokens json.Decoder.Token yields for the text of a JSON value.
Tokens(v) ==
  CASE v.t = "string" -> <<StringTok(v.s)>>
    [] v.t = "number" -> <<NumberTok(v.n)>>
    [] v.t = "null" -> <<NullTok>>
    [] v.t = "array" -> <<Delim("[")>> \o ElementTokens(v.a, 1) \o <<Delim("]")>>
    [] v.t = "object" -> <<Delim("{")>> \o MemberTokens(v.kv, 1) \o <<Delim("}")>>

MemberTokens(kv, i) ==
  IF i > Len(kv) THEN <<>>
  ELSE <<StringTok(kv[i][1])>> \o Tokens(kv[i][2]) \o MemberTokens(kv, i + 1)

ElementTokens(a, i) ==
  IF i > Len(a) THEN <<>>
  ELSE Tokens(a[i]) \o ElementTokens(a, i + 1)

IsOpen(t) == t = Delim("[") \/ t = Delim("{")
IsClose(t) == t = Delim("]") \/ t = Delim("}")

\* d.Token() fails when the input ends before the value does.
TokenFails(toks, pos) == pos > Len(toks)

RECURSIVE skipValue(_, _)
RECURSIVE skipValueLoop(_, _, _)

\* A faulty variant, used to test the properties: after an opening delimiter
\* it reads up to the first closing delimiter, without counting the depth.
skipValueOneLevel(toks, pos) ==
  IF TokenFails(toks, pos)
  THEN [pos |-> pos, err |-> "EOF",
        calls |-> {[at |-> pos, next |-> pos, err |-> "EOF"]}]
  ELSE LET t == toks[pos] IN
       IF IsOpen(t)
       THEN LET closing == {p \in (pos + 1)..Len(toks) : IsClose(toks[p])} IN
            IF closing = {}
            THEN [pos |-> Len(toks) + 1, err |-> "EOF",
                  calls |-> {[at |-> pos, next |-> Len(toks) + 1, err |-> "EOF"]}]
            ELSE LET first == CHOOSE p \in closing : \A q \in closing : p <= q IN
                 [pos |-> first + 1, err |-> "nil",
                  calls |-> {[at |-> pos, next |-> first + 1, err |-> "nil"]}]
       ELSE IF IsClose(t)
       THEN [pos |-> pos + 1, err |-> "errEnd",
             calls |-> {[at |-> pos, next |-> pos + 1, err |-> "errEnd"]}]
       ELSE [pos |-> pos + 1, err |-> "nil",
             calls |-> {[at |-> pos, next |-> pos + 1, err |-> "nil"]}]

\* skipValue(d) with the decoder at pos: the position it leaves the decoder
\* at, its error ("nil", "errEnd" or "EOF") and, as bookkeeping, every call
\* of skipValue made on the way: where it started, where it stopped, what it
\* returned.
skipValue(toks, pos) ==
  IF TokenFails(toks, pos)
  THEN [pos |-> pos, err |-> "EOF",
        calls |-> {[at |-> pos, next |-> pos, err |-> "EOF"]}]
  ELSE LET t == toks[pos] IN
       IF IsOpen(t)
       THEN LET r == skipValueLoop(toks, pos + 1, {})
            IN  [pos |-> r.pos, err |-> r.err,
                 calls |-> r.calls \cup {[at |-> pos, next |-> r.pos, err |-> r.err]}]
       ELSE IF IsClose(t)
       THEN [pos |-> pos + 1, err |-> "errEnd",
             calls |-> {[at |-> pos, next |-> pos + 1, err |-> "errEnd"]}]
       ELSE [pos |-> pos + 1, err |-> "nil",
             calls |-> {[at |-> pos, next |-> pos + 1, err |-> "nil"]}]

\* The for loop of skipValue after an opening delimiter.
skipValueLoop(toks, pos, calls) ==
  LET r == skipValue(toks, pos) IN
  IF r.err = "errEnd"
  THEN [pos |-> r.pos, err |-> "nil", calls |-> calls \cup r.calls]
  ELSE IF r.err # "nil"
  THEN [pos |-> r.pos, err |-> r.err, calls |-> calls \cup r.calls]
  ELSE skipValueLoop(toks, r.pos, calls \cup r.calls)

RECURSIVE keysInOrderLoop(_, _, _, _)

\* The for loop of keysInOrder.
keysInOrderLoop(toks, pos, keys, calls) ==
  IF TokenFails(toks, pos)
  THEN [keys |-> <<>>, err |-> "EOF", calls |-> calls]
  ELSE LET t == toks[pos] IN
       IF t = Delim("}")
       THEN [keys |-> keys, err |-> "nil", calls |-> calls]
       ELSE IF t.k # "string"
       THEN [keys |-> <<>>, err |-> "panic", calls |-> calls]
       ELSE LET r == skipValue(toks, pos + 1) IN
            IF r.err # "nil"
            THEN [keys |-> <<>>, err |-> r.err, calls |-> calls \cup r.calls]
            ELSE keysInOrderLoop(toks, r.pos, Append(keys, t.s), calls \cup r.calls)

\* A faulty variant, used to test the properties: the keys come back in
\* another order than that of the text, as they would from ranging over the
\* decoded map.
keysInOrderOfMap(toks) ==
  IF TokenFails(toks, 1)
  THEN [keys |-> <<>>, err |-> "EOF", calls |-> {}]
  ELSE IF toks[1] # Delim("{")
  THEN [keys |-> <<>>, err |-> "expected start of object", calls |-> {}]
  ELSE LET r == keysInOrderLoop(toks, 2, <<>>, {})
       IN  [r EXCEPT !.keys = [i \in 1..Len(r.keys) |-> r.keys[Len(r.keys) + 1 - i]]]

\* keysInOrder(b), b the text whose tokens are toks.
keysInOrder(toks) ==
  IF TokenFails(toks, 1)
  THEN [keys |-> <<>>, err |-> "EOF", calls |-> {}]
  ELSE IF toks[1] # Delim("{")
  THEN [keys |-> <<>>, err |-> "expected start of object", calls |-> {}]
  ELSE keysInOrderLoop(toks, 2, <<>>, {})

(***************************************************************************)
(* maybeParseInheritance                                                   *)
(***************************************************************************)
\* m[k] of a map[string]interface{}: nil when the key is absent.
Lookup(o, k) == IF HasKey(o, k) THEN Get(o, k) ELSE JNull

\* A faulty variant, used to test the properties: the base is resolved but
\* the outer description is returned in place of the second element.
maybeParseInheritanceOuter(descMap) ==
  IF ~HasKey(descMap, "allOf")
  THEN Ret([baseTypeName |-> "", typeDescJson |-> descMap])
  ELSE
    LET allOfListJson == Get(descMap, "allOf") IN
    IF ~UnmarshalSliceOk(allOfListJson)
    THEN Fatal("json: cannot unmarshal allOf")
    ELSE
      LET allOfSliceOfJson == UnmarshalSlice(allOfListJson) IN
      IF Len(allOfSliceOfJson) # 2
      THEN Fatal("want 2 elements in allOf list")
      ELSE IF ~UnmarshalMapOk(allOfSliceOfJson[1])
      THEN Fatal("json: cannot unmarshal allOf[0]")
      ELSE
        LET base == parseRef(Lookup(UnmarshalMap(allOfSliceOfJson[1]), "$ref"))
        IN  IF ~base.ok THEN base
            ELSE Ret([baseTypeName |-> base.v, typeDescJson |-> descMap])

\* Returns the base type name ("" for none) and the type's own description.
maybeParseInheritance(descMap) ==
  IF ~HasKey(descMap, "allOf")
  THEN Ret([baseTypeName |-> "", typeDescJson |-> descMap])
  ELSE
    LET allOfListJson == Get(descMap, "allOf") IN
    IF ~UnmarshalSliceOk(allOfListJson)
    THEN Fatal("json: cannot unmarshal allOf")
    ELSE
      LET allOfSliceOfJson == UnmarshalSlice(allOfListJson) IN
      IF Len(allOfSliceOfJson) # 2
      THEN Fatal("want 2 elements in allOf list")
      ELSE IF ~UnmarshalMapOk(allOfSliceOfJson[1])
      THEN Fatal("json: cannot unmarshal allOf[0]")
      ELSE IF ~UnmarshalMapOk(allOfSliceOfJson[2])
      THEN Fatal("json: cannot unmarshal allOf[1]")
      ELSE
        LET baseTypeRef == UnmarshalMap(allOfSliceOfJson[1])
            base == parseRef(Lookup(baseTypeRef, "$ref"))
        IN  IF ~base.ok THEN base
            ELSE Ret([baseTypeName |-> base.v,
                      typeDescJson |-> UnmarshalMap(allOfSliceOfJson[2])])

(***************************************************************************)
(* emitToplevelType                                                        *)
(*                                                                         *)
(* The emitted text is kept as its type blocks.  A block is                *)
(*   name, kind ("string": type N string; "struct": type N struct {...}),  *)
(*   base (the embedded base type, "" for none),                           *)
(*   fields (in order: Go name, Go type, JSON name, omitempty),            *)
(*   desc (bookkeeping: the description the block was generated from).     *)
(* emitToplevelType returns the primary block followed by the blocks of    *)
(* the body type, in the order of the text.                                *)
(***************************************************************************)
Field(goName, goType, json, omitempty) ==
  [goName |-> goName, goType |-> goType, json |-> json, omitempty |-> omitempty]

Block(name, kind, base, fields, desc) ==
  [name |-> name, kind |-> kind, base |-> base, fields |-> fields, desc |-> desc]

\* A faulty variant, used to test the properties: the two type names of the
\* "command" condition are joined by "or", so "command" is dropped everywhere.
skipPropertyCommandEverywhere(propName, typeName) ==
  \/ propName = "type" /\ typeName \in {"Request", "Response", "Event"}
  \/ propName = "command" /\ (typeName # "Request" \/ typeName # "Response")
  \/ propName = "event" /\ typeName # "Event"
  \/ propName = "arguments" /\ typeName = "Request"

\* A faulty variant, used to test the properties: the "type" condition is
\* missing.
skipPropertyKeepsType(propName, typeName) ==
  \/ propName = "command" /\ typeName # "Request" /\ typeName # "Response"
  \/ propName = "event" /\ typeName # "Event"
  \/ propName = "arguments" /\ typeName = "Request"

\* The four conditions that open the loop body: the property is dropped.
skipProperty(propName, typeName) ==
  \/ propName = "type" /\ typeName \in {"Request", "Response", "Event"}
  \/ propName = "command" /\ typeName # "Request" /\ typeName # "Response"
  \/ propName = "event" /\ typeName # "Event"
  \/ propName = "arguments" /\ typeName = "Request"

\* A faulty variant, used to test the properties: Event is forgotten.
skipBodyResponseOnly(typeName) == typeName = "Response"

\* The body property is dropped in these types.
skipBody(typeName) == typeName = "Response" \/ typeName = "Event"

\* requiredMap: the names listed in "required"; a panic when one is no string.
requiredNames(required) == {required[i].s : i \in 1..Len(required)}

\* A faulty variant, used to test the properties: the two branches are swapped.
omitEmptySwapped(requiredMap, propName) == propName \in requiredMap

\* The JSON tag of a field: omitempty unless the property is required.
omitEmpty(requiredMap, propName) == propName \notin requiredMap

RECURSIVE emitToplevelType(_, _)
RECURSIVE emitProperties(_, _, _, _, _, _, _)

\* The loop over propsNamesInOrder from index k on; fields and bodyType are
\* what the iterations before k have produced.
emitProperties(typeName, propsMapOfJson, requiredMap, propsNamesInOrder, k, fields, bodyType) ==
  IF k > Len(propsNamesInOrder)
  THEN Ret([fields |-> fields, bodyType |-> bodyType])
  ELSE
    LET propName == propsNamesInOrder[k]
        next(fs, bt) == emitProperties(typeName, propsMapOfJson, requiredMap,
                                       propsNamesInOrder, k + 1, fs, bt)
    IN
    IF skipProperty(propName, typeName)
    THEN next(fields, bodyType)
    ELSE IF ~UnmarshalMapOk(Get(propsMapOfJson, propName))
    THEN Fatal("json: cannot unmarshal property")
    ELSE
      LET propDesc == UnmarshalMap(Get(propsMapOfJson, propName)) IN
      IF propName = "body"
      THEN
        IF skipBody(typeName)
        THEN next(fields, bodyType)
        ELSE IF HasKey(propDesc, "$ref")
        THEN LET ref == parseRef(Get(propDesc, "$ref")) IN
             IF ~ref.ok THEN ref
             ELSE next(Append(fields, Field("Body", ref.v, "body",
                                            omitEmpty(requiredMap, "body"))),
                       bodyType)
        ELSE LET bodyTypeName == typeName \o "Body"
                 emitted == emitToplevelType(bodyTypeName, Get(propsMapOfJson, "body"))
             IN  IF ~emitted.ok THEN emitted
                 ELSE next(Append(fields, Field("Body", bodyTypeName, "body",
                                                omitEmpty(requiredMap, "body"))),
                           emitted.v)
      ELSE
        LET goType == parsePropertyType(propDesc) IN
        IF ~goType.ok THEN goType
        ELSE next(Append(fields, Field(goFieldName(propName), goType.v, propName,
                                       omitEmpty(requiredMap, propName))),
                  bodyType)

emitToplevelType(typeName, descJson) ==
  IF ~UnmarshalMapOk(descJson)
  THEN Fatal("json: cannot unmarshal description")
  ELSE
    LET inh == maybeParseInheritance(UnmarshalMap(descJson)) IN
    IF ~inh.ok THEN inh
    ELSE
      LET baseType == inh.v.baseTypeName
          descMap == inh.v.typeDescJson
      IN
      IF ~HasKey(descMap, "type")
      THEN Fatal("want description to have 'type'")
      ELSE IF ~UnmarshalStringOk(Get(descMap, "type"))
      THEN Fatal("json: cannot unmarshal type")
      ELSE
        LET descTypeString == UnmarshalString(Get(descMap, "type")) IN
        IF descTypeString = "string"
        THEN Ret(<<Block(typeName, "string", "", <<>>, descJson)>>)
        ELSE IF descTypeString # "object"
        THEN Fatal("want description type to be object or string")
        ELSE IF ~HasKey(descMap, "properties")
        THEN Ret(<<Block(typeName, "struct", baseType, <<>>, descJson)>>)
        ELSE IF ~UnmarshalMapOk(Get(descMap, "properties"))
        THEN Fatal("json: cannot unmarshal properties")
        ELSE
          LET propsMapOfJson == UnmarshalMap(Get(descMap, "properties"))
              propsNamesInOrder == keysInOrder(Tokens(Get(descMap, "properties")))
          IN
          IF propsNamesInOrder.err # "nil"
          THEN Fatal(propsNamesInOrder.err)
          ELSE IF HasKey(descMap, "required") /\ ~UnmarshalSliceOk(Get(descMap, "required"))
          THEN Fatal("json: cannot unmarshal required")
          ELSE
            LET required == IF HasKey(descMap, "required")
                            THEN UnmarshalSlice(Get(descMap, "required"))
                            ELSE <<>>
            IN
            IF \E i \in 1..Len(required) : required[i].t # "string"
            THEN Panic("interface conversion: interface {} is not string")
            ELSE
              LET props == emitProperties(typeName, propsMapOfJson, requiredNames(required),
                                          propsNamesInOrder.keys, 1, <<>>, <<>>)
              IN  IF ~props.ok THEN props
                  ELSE Ret(<<Block(typeName, "struct", baseType, props.v.fields, descJson)>>
                           \o props.v.bodyType)

(***************************************************************************)
(* Schema documents the generator is run on                                *)
(***************************************************************************)
MaxProps == 2
MaxDefs == 2

Ref(name) == JObj(<<<<"$ref", JStr(RefPrefix \o name)>>>>)
TypeOnly(name) == JObj(<<<<"type", JStr(name)>>>>)
ArrayOf(items) == JObj(<<<<"type", JStr("array")>>, <<"items", items>>>>)
MapOf(value) == JObj(<<<<"type", JStr("object")>>, <<"additionalProperties", value>>>>)
Union == JObj(<<<<"type", JArr(<<JStr("string"), JStr("null")>>)>>>>)

\* An object description: "type": "object", "properties", "required".
ObjectDesc(props, required) ==
  JObj(<<<<"type", JStr("object")>>, <<"properties", JObj(props)>>,
         <<"required", JArr(required)>>>>)

ObjectDescNoRequired(props) ==
  JObj(<<<<"type", JStr("object")>>, <<"properties", JObj(props)>>>>)

\* "allOf": [base, own]; the outer description carries keys of its own, which
\* the generator must not read.
AllOf(elems) ==
  JObj(<<<<"type", JStr("string")>>,
         <<"properties", JObj(<<<<"outer", TypeOnly("string")>>>>)>>,
         <<"allOf", JArr(elems)>>>>)

InlineBody ==
  ObjectDesc(<<<<"reason", TypeOnly("string")>>, <<"all_threads", TypeOnly("boolean")>>>>,
             <<JStr("reason")>>)

\* A body whose own description has an inline body again.
NestedBody ==
  ObjectDescNoRequired(<<<<"body", InlineBody>>>>)

\* The properties a description is built from.
PropEntries ==
  { <<"type", TypeOnly("string")>>,
    <<"command", TypeOnly("string")>>,
    <<"event", TypeOnly("string")>>,
    <<"arguments", MapOf(Ref("Source"))>>,
    <<"body", InlineBody>>,
    <<"body", Ref("Message")>>,
    <<"__restart", ArrayOf(Ref("Message"))>> }

PropLists == UNION {[1..n -> PropEntries] : n \in 0..MaxProps}

\* "required" is absent, or lists the first property, or lists them all.
OwnDescs ==
  {ObjectDescNoRequired(ps) : ps \in PropLists}
  \cup {ObjectDesc(ps, <<JStr(ps[1][1])>>) : ps \in PropLists \ {<<>>}}
  \cup {ObjectDesc(ps, [i \in 1..Len(ps) |-> JStr(ps[i][1])]) : ps \in PropLists}

RichDescs ==
  OwnDescs \cup {AllOf(<<Ref("Message"), d>>) : d \in OwnDescs}

\* Descriptions at the edges of what the generator accepts.
OddDescs ==
  { TypeOnly("string"),
    TypeOnly("object"),
    TypeOnly("number"),
    JObj(<<<<"type", JNull>>>>),
    JObj(<<<<"type", JNum(1)>>>>),
    JObj(<<<<"properties", JObj(<<>>)>>>>),
    JNull,
    JStr("object"),
    AllOf(<<Ref("Request"), TypeOnly("string")>>),
    AllOf(<<Ref("Request"), TypeOnly("object")>>),
    AllOf(<<Ref(""), ObjectDescNoRequired(<<<<"seq", TypeOnly("integer")>>>>)>>),
    AllOf(<<Ref("Request")>>),
    AllOf(<<Ref("Request"), TypeOnly("object"), TypeOnly("object")>>),
    AllOf(<<JObj(<<<<"$ref", JNum(123)>>>>), TypeOnly("object")>>),
    AllOf(<<JObj(<<<<"$ref", JStr("#/defs/Request")>>>>), TypeOnly("object")>>),
    AllOf(<<JObj(<<>>), TypeOnly("object")>>),
    AllOf(<<JNum(1), TypeOnly("object")>>),
    AllOf(<<Ref("Request"), JNum(1)>>),
    AllOf(<<Ref("Request"), JNull>>),
    JObj(<<<<"allOf", JNull>>, <<"type", JStr("object")>>>>),
    JObj(<<<<"allOf", JStr("x")>>, <<"type", JStr("object")>>>>),
    JObj(<<<<"type", JStr("object")>>, <<"properties", JNull>>>>),
    JObj(<<<<"type", JStr("object")>>, <<"properties", JArr(<<>>)>>>>),
    ObjectDesc(<<<<"seq", JNum(1)>>>>, <<>>),
    ObjectDesc(<<<<"seq", JNull>>>>, <<>>),
    ObjectDesc(<<<<"seq", TypeOnly("integer")>>>>, <<JNum(1)>>),
    ObjectDesc(<<<<"seq", TypeOnly("integer")>>>>, <<JStr("absent")>>),
    JObj(<<<<"type", JStr("object")>>,
           <<"properties", JObj(<<<<"seq", TypeOnly("integer")>>>>)>>,
           <<"required", JStr("seq")>>>>),
    ObjectDescNoRequired(<<<<"body", NestedBody>>>>),
    ObjectDescNoRequired(<<<<"body", TypeOnly("string")>>>>),
    ObjectDescNoRequired(<<<<"body", TypeOnly("number")>>>>),
    ObjectDescNoRequired(<<<<"body", AllOf(<<Ref("Message"), InlineBody>>)>>>>),
    ObjectDescNoRequired(<<<<"body", JObj(<<<<"$ref", JNum(123)>>>>)>>>>),
    ObjectDescNoRequired(<<<<"body", JObj(<<<<"$ref", JStr("#/definitions/Message")>>,
                                            <<"type", JStr("object")>>>>)>>>>),
    ObjectDescNoRequired(<<<<"m", JObj(<<<<"$ref", JNum(123)>>>>)>>>>),
    ObjectDescNoRequired(<<<<"seq", TypeOnly("integer")>>, <<"seq", TypeOnly("string")>>>>),
    ObjectDescNoRequired(<<<<"seq", TypeOnly("integer")>>, <<"bad", TypeOnly("number")>>>>),
    ObjectDescNoRequired(<<<<"value", Union>>, <<"a_b__c", TypeOnly("boolean")>>>>) }

TypeNames == {"Message", "Request", "Response", "Event", "StoppedEvent"}

\* A document: other keys may stand beside "definitions".
Document(defs) == JObj(<<<<"title", JStr("schema")>>, <<"definitions", JObj(defs)>>>>)

\* Documents with one definition, of every name and description above.
SingleDocs ==
  {Document(<<<<n, d>>>>) : n \in TypeNames, d \in RichDescs \cup OddDescs}

\* The definitions that documents with several definitions are made of.
SeqDefs ==
  { <<"Message", ObjectDesc(<<<<"id", TypeOnly("integer")>>>>, <<JStr("id")>>)>>,
    <<"StoppedEvent", AllOf(<<Ref("Event"),
                              ObjectDesc(<<<<"event", TypeOnly("string")>>, <<"body", InlineBody>>>>,
                                         <<JStr("event"), JStr("body")>>)>>)>>,
    <<"ErrorResponse", ObjectDescNoRequired(<<<<"error", Ref("Message")>>>>)>>,
    <<"ErrorResponse", TypeOnly("string")>>,
    <<"Checksum", TypeOnly("number")>>,
    <<"Source", ObjectDescNoRequired(<<<<"origin", JObj(<<<<"$ref", JNum(123)>>>>)>>>>)>> }

SeqDocs ==
  {Document(defs) : defs \in UNION {[1..n -> SeqDefs] : n \in 0..MaxDefs}}

\* Files that are no schema document.
BrokenData ==
  { [t |-> "malformed"], JNull, JArr(<<>>), JObj(<<>>),
    JObj(<<<<"definitions", JNull>>>>),
    JObj(<<<<"definitions", JArr(<<>>)>>>>) }

\* The command line and the file it names.
Runs ==
  {[hasArg |-> FALSE, readable |-> FALSE, data |-> JNull],
   [hasArg |-> TRUE, readable |-> FALSE, data |-> JNull]}
  \cup {[hasArg |-> TRUE, readable |-> TRUE, data |-> d] :
          d \in SingleDocs \cup SeqDocs \cup BrokenData}

(***************************************************************************)
(* main                                                                    *)
(***************************************************************************)
VARIABLES
  run,         \* the command line and the file it names
  pc,          \* where the process is
  inputData,   \* the bytes read from the file
  m,           \* the decoded document
  typeMap,     \* the decoded "definitions"
  typeNames,   \* the keys of "definitions", in order
  next,        \* the index of the type the first loop of main is at
  b,           \* the strings.Builder of main: the pieces written so far
  formatted,   \* the result of format.Source
  stdout,      \* what has been written to standard output
  stderr,      \* what log.Fatal or the runtime has reported
  exitCode,    \* the exit status, -1 while the process runs
  propValue,   \* parsePropertyType on its own: the argument
  goType,      \* parsePropertyType on its own: the result
  keysInput,   \* keysInOrder on its own: the value and how much of its text is given
  keysResult   \* keysInOrder on its own: the result

vars == <<run, pc, inputData, m, typeMap, typeNames, next, b, formatted,
          stdout, stderr, exitCode, propValue, goType, keysInput, keysResult>>

mainVars == <<run, pc, inputData, m, typeMap, typeNames, next, b, formatted,
              stdout, stderr, exitCode>>

PreambleItem == [k |-> "preamble"]
TypeItem(blocks) == [k |-> "type", blocks |-> blocks]
MarkerItem(name) == [k |-> "isMessage", name |-> name]

\* log.Fatal and a panic end the process; nothing else of its state changes.
Exit(r) ==
  /\ pc' = "exited"
  /\ stderr' = r.msg
  /\ exitCode' = IF r.how = "panic" THEN 2 ELSE 1

InitMain(runs) ==
  /\ run \in runs
  /\ pc = "main"
  /\ inputData = JNull
  /\ m = JObj(<<>>)
  /\ typeMap = JObj(<<>>)
  /\ typeNames = <<>>
  /\ next = 1
  /\ b = <<>>
  /\ formatted = <<>>
  /\ stdout = <<>>
  /\ stderr = ""
  /\ exitCode = -1

\* os.Args[1] and ioutil.ReadFile.
ReadFile ==
  /\ pc = "main"
  /\ IF ~run.hasArg
     THEN Exit(Panic("index out of range")) /\ UNCHANGED inputData
     ELSE IF ~run.readable
     THEN Exit(Fatal("open: no such file or directory")) /\ UNCHANGED inputData
     ELSE /\ inputData' = run.data
          /\ pc' = "parse"
          /\ UNCHANGED <<stderr, exitCode>>
  /\ UNCHANGED <<run, m, typeMap, typeNames, next, b, formatted, stdout,
                 propValue, goType, keysInput, keysResult>>

\* The two json.Unmarshal calls of main.
ParseDocument ==
  /\ pc = "parse"
  /\ IF ~UnmarshalMapOk(inputData)
     THEN Exit(Fatal("json: cannot unmarshal document")) /\ UNCHANGED <<m, typeMap>>
     ELSE IF ~HasKey(UnmarshalMap(inputData), "definitions")
     THEN /\ Exit(Fatal("unexpected end of JSON input"))
          /\ m' = UnmarshalMap(inputData)
          /\ UNCHANGED typeMap
     ELSE IF ~UnmarshalMapOk(Get(UnmarshalMap(inputData), "definitions"))
     THEN /\ Exit(Fatal("json: cannot unmarshal definitions"))
          /\ m' = UnmarshalMap(inputData)
          /\ UNCHANGED typeMap
     ELSE /\ m' = UnmarshalMap(inputData)
          /\ typeMap' = UnmarshalMap(Get(m', "definitions"))
          /\ pc' = "start"
          /\ UNCHANGED <<stderr, exitCode>>
  /\ UNCHANGED <<run, inputData, typeNames, next, b, formatted, stdout,
                 propValue, goType, keysInput, keysResult>>

\* The builder gets the preamble; the type names are read in order.
StartOutput ==
  /\ pc = "start"
  /\ b' = <<PreambleItem>>
  /\ LET keys == keysInOrder(Tokens(Get(m, "definitions"))) IN
     IF keys.err # "nil"
     THEN Exit(Fatal(keys.err)) /\ UNCHANGED <<typeNames, next>>
     ELSE /\ typeNames' = keys.keys
          /\ next' = 1
          /\ pc' = "emit"
          /\ UNCHANGED <<stderr, exitCode>>
  /\ UNCHANGED <<run, inputData, m, typeMap, formatted, stdout,
                 propValue, goType, keysInput, keysResult>>

\* A faulty variant, used to test the properties: every type is printed as
\* soon as it is generated.
EmitTypeStreaming ==
  /\ pc = "emit"
  /\ next <= Len(typeNames)
  /\ LET typeName == typeNames[next]
         emitted == emitToplevelType(replaceGoTypename(typeName), Get(typeMap, typeName))
     IN  IF ~emitted.ok
         THEN Exit(emitted) /\ UNCHANGED <<b, next, stdout>>
         ELSE /\ b' = Append(b, TypeItem(emitted.v))
              /\ stdout' = Append(stdout, TypeItem(emitted.v))
              /\ next' = next + 1
              /\ UNCHANGED <<pc, stderr, exitCode>>
  /\ UNCHANGED <<run, inputData, m, typeMap, typeNames, formatted,
                 propValue, goType, keysInput, keysResult>>

\* One iteration of the first loop of main.
EmitType ==
  /\ pc = "emit"
  /\ next <= Len(typeNames)
  /\ LET typeName == typeNames[next]
         emitted == emitToplevelType(replaceGoTypename(typeName), Get(typeMap, typeName))
     IN  IF ~emitted.ok
         THEN Exit(emitted) /\ UNCHANGED <<b, next>>
         ELSE /\ b' = Append(b, TypeItem(emitted.v))
              /\ next' = next + 1
              /\ UNCHANGED <<pc, stderr, exitCode>>
  /\ UNCHANGED <<run, inputData, m, typeMap, typeNames, formatted, stdout,
                 propValue, goType, keysInput, keysResult>>

\* The type gets an isMessage method.
isMessageType(typeName) ==
  \/ HasSuffix(typeName, "Event")
  \/ HasSuffix(typeName, "Request")
  \/ HasSuffix(typeName, "Response")
  \/ typeName = "ProtocolMessage"

RECURSIVE markers(_, _)
markers(names, i) ==
  IF i > Len(names) THEN <<>>
  ELSE (IF isMessageType(replaceGoTypename(names[i]))
        THEN <<MarkerItem(replaceGoTypename(names[i]))>>
        ELSE <<>>)
       \o markers(names, i + 1)

\* The second loop of main, after the first has ended.
EmitMarkers ==
  /\ pc = "emit"
  /\ next > Len(typeNames)
  /\ b' = b \o markers(typeNames, 1)
  /\ pc' = "format"
  /\ UNCHANGED <<run, inputData, m, typeMap, typeNames, next, formatted, stdout,
                 stderr, exitCode, propValue, goType, keysInput, keysResult>>

\* format.Source: the formatter accepts the text and returns it laid out,
\* or rejects it; it adds and removes no declaration.
FormatSource ==
  /\ pc = "format"
  /\ \E accepted \in BOOLEAN :
       IF accepted
       THEN /\ formatted' = b
            /\ pc' = "print"
            /\ UNCHANGED <<stderr, exitCode>>
       ELSE Exit(Fatal("format.Source: syntax error")) /\ UNCHANGED formatted
  /\ UNCHANGED <<run, inputData, m, typeMap, typeNames, next, b, stdout,
                 propValue, goType, keysInput, keysResult>>

\* fmt.Print, and main returns.
PrintOutput ==
  /\ pc = "print"
  /\ stdout' = formatted
  /\ pc' = "exited"
  /\ exitCode' = 0
  /\ UNCHANGED <<run, inputData, m, typeMap, typeNames, next, b, formatted,
                 stderr, propValue, goType, keysInput, keysResult>>

Init ==
  /\ InitMain(Runs)
  /\ propValue = JNull
  /\ goType = Ret("")
  /\ keysInput = [value |-> JNull, given |-> 0]
  /\ keysResult = [keys |-> <<>>, err |-> "nil", calls |-> {}]

Next ==
  \/ ReadFile
  \/ ParseDocument
  \/ StartOutput
  \/ EmitType
  \/ EmitMarkers
  \/ FormatSource
  \/ PrintOutput

Spec == Init /\ [][Next]_vars

(***************************************************************************)
(* main on the message hierarchy: ProtocolMessage, one of Request,         *)
(* Response and Event that extends it, and a type that extends that one    *)
(***************************************************************************)
MaxDeclared == 1

\* The properties of the hierarchy, in the order the schema writes them.
HierProps ==
  << <<"type", TypeOnly("string")>>,
     <<"command", TypeOnly("string")>>,
     <<"event", TypeOnly("string")>>,
     <<"arguments", Ref("Arguments")>>,
     <<"body", TypeOnly("object")>> >>

\* A type declares at most MaxDeclared of them.
HierPropLists ==
  {SelectSeq(HierProps, LAMBDA entry : entry[1] \in declared) :
     declared \in {d \in SUBSET {HierProps[i][1] : i \in 1..Len(HierProps)} :
                     Cardinality(d) <= MaxDeclared}}

Extends(base, props) ==
  JObj(<<<<"allOf", JArr(<<Ref(base), ObjectDescNoRequired(props)>>)>>>>)

HierDocs ==
  {JObj(<<<<"definitions",
            JObj(<< <<"ProtocolMessage", ObjectDescNoRequired(p1)>>,
                    <<mid, Extends("ProtocolMessage", p2)>>,
                    <<"Launch" \o mid, Extends(mid, p3)>> >>)>>>>) :
     mid \in {"Request", "Response", "Event"},
     p1 \in HierPropLists, p2 \in HierPropLists, p3 \in HierPropLists}

HierRuns == {[hasArg |-> TRUE, readable |-> TRUE, data |-> d] : d \in HierDocs}

InitHier ==
  /\ InitMain(HierRuns)
  /\ propValue = JNull
  /\ goType = Ret("")
  /\ keysInput = [value |-> JNull, given |-> 0]
  /\ keysResult = [keys |-> <<>>, err |-> "nil", calls |-> {}]

SpecHier == InitHier /\ [][Next]_vars

(***************************************************************************)
(* parsePropertyType on its own                                            *)
(***************************************************************************)
MaxNest == 2

\* Property descriptors that nest nothing.
PropLeaves ==
  { JObj(<<>>),
    TypeOnly("string"), TypeOnly("integer"), TypeOnly("boolean"),
    TypeOnly("number"), TypeOnly("array"), TypeOnly("object"),
    Union,
    JObj(<<<<"type", JArr(<<>>)>>>>),
    JObj(<<<<"type", JNull>>>>),
    JObj(<<<<"type", JNum(1)>>>>),
    JObj(<<<<"type", JObj(<<>>)>>>>),
    Ref("Source"), Ref("Message"), Ref(""),
    JObj(<<<<"$ref", JStr("#/defs/Source")>>>>),
    JObj(<<<<"$ref", JStr("Message")>>>>),
    JObj(<<<<"$ref", JNum(123)>>>>),
    JObj(<<<<"$ref", JNull>>>>),
    JObj(<<<<"type", JStr("string")>>, <<"$ref", JStr("#/definitions/Source")>>>>),
    JObj(<<<<"$ref", JStr("#/definitions/Message")>>, <<"type", JStr("number")>>>>),
    JObj(<<<<"type", JStr("array")>>, <<"items", JStr("string")>>>>),
    JObj(<<<<"type", JStr("array")>>, <<"items", JNull>>>>),
    JObj(<<<<"type", JStr("array")>>, <<"items", JArr(<<TypeOnly("string")>>)>>>>),
    JObj(<<<<"type", JStr("object")>>, <<"additionalProperties", JNull>>>>),
    JObj(<<<<"type", JStr("object")>>, <<"items", TypeOnly("string")>>>>),
    JObj(<<<<"type", JStr("array")>>, <<"additionalProperties", TypeOnly("string")>>>>) }

\* Descriptors that nest arrays and maps to the given depth.
RECURSIVE PropValues(_)
PropValues(n) ==
  IF n = 0 THEN PropLeaves
  ELSE PropLeaves
       \cup {ArrayOf(d) : d \in PropValues(n - 1)}
       \cup {MapOf(d) : d \in PropValues(n - 1)}

\* The variables of main while a function is run on its own.
InitAlone(at) ==
  /\ run = [hasArg |-> FALSE, readable |-> FALSE, data |-> JNull]
  /\ pc = at
  /\ inputData = JNull
  /\ m = JObj(<<>>)
  /\ typeMap = JObj(<<>>)
  /\ typeNames = <<>>
  /\ next = 1
  /\ b = <<>>
  /\ formatted = <<>>
  /\ stdout = <<>>
  /\ stderr = ""
  /\ exitCode = -1

InitProp ==
  /\ InitAlone("parsePropertyType")
  /\ propValue \in PropValues(MaxNest)
  /\ goType = Ret("")
  /\ keysInput = [value |-> JNull, given |-> 0]
  /\ keysResult = [keys |-> <<>>, err |-> "nil", calls |-> {}]

\* The call returns a type expression, or the process ends.
CallParsePropertyType ==
  /\ pc = "parsePropertyType"
  /\ goType' = parsePropertyType(propValue)
  /\ IF goType'.ok
     THEN pc' = "returned" /\ UNCHANGED <<stderr, exitCode>>
     ELSE Exit(goType')
  /\ UNCHANGED <<run, inputData, m, typeMap, typeNames, next, b, formatted, stdout,
                 propValue, keysInput, keysResult>>

NextProp == CallParsePropertyType

SpecProp == InitProp /\ [][NextProp]_vars

(***************************************************************************)
(* keysInOrder on its own                                                  *)
(***************************************************************************)
MaxDepth == 1

\* Values nested to the given depth.  "}" is also a string and a key.
RECURSIVE NestedValues(_)
NestedValues(n) ==
  IF n = 0 THEN {JStr("}"), JArr(<<>>), JObj(<<>>)}
  ELSE NestedValues(n - 1)
       \cup {JArr(<<x, JNum(1)>>) : x \in NestedValues(n - 1)}
       \cup {JObj(<<<<"k", x>>, <<"}", JNull>>>>) : x \in NestedValues(n - 1)}

Members == {<<k, v>> : k \in {"a", "b"}, v \in NestedValues(MaxDepth)}

\* Objects of at most two members, and values that are no object.
KeysValues ==
  {JObj(<<>>)}
  \cup {JObj(<<x>>) : x \in Members}
  \cup {JObj(<<x, y>>) : x \in Members, y \in Members}
  \cup {JNull, JNum(1), JStr("{"), JArr(<<>>), JArr(<<JObj(<<<<"a", JNum(1)>>>>)>>)}

\* The text given to keysInOrder is that of a value, or a part of it.
InitKeys ==
  /\ InitAlone("keysInOrder")
  /\ propValue = JNull
  /\ goType = Ret("")
  /\ \E v \in KeysValues :
       \E n \in 0..Len(Tokens(v)) : keysInput = [value |-> v, given |-> n]
  /\ keysResult = [keys |-> <<>>, err |-> "nil", calls |-> {}]

KeysText == SubSeq(Tokens(keysInput.value), 1, keysInput.given)

CallKeysInOrder ==
  /\ pc = "keysInOrder"
  /\ keysResult' = keysInOrder(KeysText)
  /\ pc' = "returned"
  /\ UNCHANGED <<run, inputData, m, typeMap, typeNames, next, b, formatted, stdout,
                 stderr, exitCode, propValue, goType, keysInput>>

NextKeys == CallKeysInOrder

SpecKeys == InitKeys /\ [][NextKeys]_vars

(***************************************************************************)
(* Properties                                                              *)
(*                                                                         *)
(* What the properties expect is written here from the schema alone, not   *)
(* with the operators of the generator above.                              *)
(***************************************************************************)
\* The one renamed identifier.
Renamed(name) == IF name = "Message" THEN "ErrorMessage" ELSE name

\* The name a well-formed reference value points to, "" when it is none.
IsReference(v) ==
  /\ v.t = "string"
  /\ Len(v.s) >= Len("#/definitions/")
  /\ SubSeq(v.s, 1, Len("#/definitions/")) = "#/definitions/"

ReferencedName(v) == SubSeq(v.s, Len("#/definitions/") + 1, Len(v.s))

Carries(d, key) == \E i \in 1..Len(d.kv) : d.kv[i][1] = key

\* The value of the last member with that key: a decoded map keeps one.
ValueOf(d, key) ==
  d.kv[CHOOSE i \in 1..Len(d.kv) :
         d.kv[i][1] = key /\ \A j \in (i + 1)..Len(d.kv) : d.kv[j][1] # key][2]

NoType == "<fatal>"

\* The type expression the mapping rules give a descriptor, NoType where
\* they give none.
RECURSIVE MappedType(_)
MappedType(d) ==
  LET Nest(prefix, key) ==
        IF Carries(d, key) /\ ValueOf(d, key).t = "object"
        THEN LET inner == MappedType(ValueOf(d, key))
             IN  IF inner = NoType THEN NoType ELSE prefix \o inner
        ELSE NoType
  IN
  IF Carries(d, "$ref")
  THEN IF IsReference(ValueOf(d, "$ref"))
       THEN Renamed(ReferencedName(ValueOf(d, "$ref")))
       ELSE NoType
  ELSE IF ~Carries(d, "type") THEN NoType
  ELSE LET ty == ValueOf(d, "type") IN
       IF ty.t = "array" THEN "interface{}"
       ELSE IF ty.t # "string" THEN NoType
       ELSE CASE ty.s = "string" -> "string"
              [] ty.s = "integer" -> "int"
              [] ty.s = "boolean" -> "bool"
              [] ty.s = "array" -> Nest("[]", "items")
              [] ty.s = "object" -> Nest("map[string]", "additionalProperties")
              [] OTHER -> NoType

\* C8: parsePropertyType applies its rules in their priority: a "$ref" wins
\* over any "type"; string, integer, boolean map to string, int, bool; array
\* and object map to "[]" and "map[string]" before the recursively mapped
\* items and additionalProperties; a "type" that is a list maps to
\* interface{}; every other descriptor ends the process and no type
\* expression is returned.
C8_PropertyTypeRules ==
  pc \in {"returned", "exited"} =>
    /\ pc = "returned" <=> MappedType(propValue) # NoType
    /\ pc = "returned" => goType.ok /\ goType.v = MappedType(propValue)
    /\ pc = "exited" => ~goType.ok /\ exitCode \in {1, 2} /\ stdout = <<>>

\* A nested descriptor has been mapped through both recursive rules down to
\* a renamed reference.
C8_Witness ==
  /\ pc = "returned"
  /\ propValue = ArrayOf(MapOf(Ref("Message")))
  /\ goType = Ret("[]map[string]ErrorMessage")

(***************************************************************************)
\* The tokens of the text given to keysInOrder, read without the decoder.
OpensValue(t) == t.k = "delim" /\ t.c \in {"[", "{"}
ClosesValue(t) == t.k = "delim" /\ t.c \in {"]", "}"}

\* toks[i..j] is one complete value: a scalar, or an opening delimiter, its
\* matching closing delimiter and balanced text between them.
CompleteValue(toks, i, j) ==
  LET depth(k) == Cardinality({x \in i..k : OpensValue(toks[x])})
                  - Cardinality({x \in i..k : ClosesValue(toks[x])})
  IN  /\ i <= j /\ j <= Len(toks)
      /\ IF i = j THEN toks[i].k # "delim"
         ELSE /\ OpensValue(toks[i])
              /\ toks[j] = [k |-> "delim", c |-> IF toks[i].c = "[" THEN "]" ELSE "}"]
              /\ depth(j) = 0
              /\ \A k \in i..(j - 1) : depth(k) > 0

WellFormedObject ==
  /\ keysInput.value.t = "object"
  /\ keysInput.given = Len(Tokens(keysInput.value))

\* C9: for a well-formed object keysInOrder returns exactly its top-level
\* keys in source order; every skipValue call made on a value consumes
\* exactly that one complete value and returns nil; skipValue returns errEnd
\* only when the token it reads is a closing delimiter; keysInOrder returns
\* an error when the first token is not '{'.
C9_KeysInOrder ==
  pc = "returned" =>
    /\ WellFormedObject =>
         /\ keysResult.err = "nil"
         /\ keysResult.keys = [i \in 1..Len(keysInput.value.kv) |-> keysInput.value.kv[i][1]]
         /\ \A c \in keysResult.calls :
              IF ClosesValue(KeysText[c.at])
              THEN c.err = "errEnd" /\ c.next = c.at + 1
              ELSE c.err = "nil" /\ CompleteValue(KeysText, c.at, c.next - 1)
    /\ \A c \in keysResult.calls :
         c.err = "errEnd" => c.at <= Len(KeysText) /\ ClosesValue(KeysText[c.at])
    /\ (keysInput.given = 0 \/ KeysText[1] # [k |-> "delim", c |-> "{"]) =>
         keysResult.err # "nil" /\ keysResult.keys = <<>>

\* keysInOrder has read an object of two members whose values nest
\* containers in containers, and skipValue has been called on values and on
\* closing delimiters.
C9_Witness ==
  /\ pc = "returned"
  /\ WellFormedObject
  /\ keysResult.keys = <<"a", "b">>
  /\ \E c \in keysResult.calls : c.err = "errEnd"
  /\ \E c \in keysResult.calls : c.err = "nil" /\ c.next - c.at >= 5
  /\ \E i \in 1..Len(KeysText) : KeysText[i] = [k |-> "string", s |-> "}"]

(***************************************************************************)
\* The type blocks of a text, and the blocks written by one emitToplevelType
\* call: the first is the top-level type, the others its body types.
TypeItems(text) ==
  LET IsType(item) == item.k = "type" IN SelectSeq(text, IsType)

TopNames(text) == [i \in 1..Len(TypeItems(text)) |-> TypeItems(text)[i].blocks[1].name]

\* The keys of "definitions" as the document writes them.
DefinitionKeys ==
  LET defs == ValueOf(run.data, "definitions")
  IN  [i \in 1..Len(defs.kv) |-> defs.kv[i][1]]

\* P holds of every block written to the builder so far.
EveryBlock(P(_)) ==
  \A i \in 1..Len(b) :
    b[i].k = "type" => \A j \in 1..Len(b[i].blocks) : P(b[i].blocks[j])

SomeBlock(P(_)) ==
  \E i \in 1..Len(b) :
    b[i].k = "type" /\ \E j \in 1..Len(b[i].blocks) : P(b[i].blocks[j])

\* A type's own description: the second element of "allOf" when there is one.
OwnDescription(desc) ==
  IF Carries(desc, "allOf") THEN ValueOf(desc, "allOf").a[2] ELSE desc

\* The keys of the "properties" of a type's own description, as written.
DeclaredKeys(desc) ==
  LET own == OwnDescription(desc) IN
  IF Carries(own, "properties")
  THEN LET props == ValueOf(own, "properties")
       IN  [i \in 1..Len(props.kv) |-> props.kv[i][1]]
  ELSE <<>>

DeclaredProperty(desc, name) == ValueOf(ValueOf(OwnDescription(desc), "properties"), name)

\* The names listed in "required" of a type's own description.
RequiredSet(desc) ==
  LET own == OwnDescription(desc) IN
  IF Carries(own, "required")
  THEN {ValueOf(own, "required").a[i].s : i \in 1..Len(ValueOf(own, "required").a)}
  ELSE {}

\* The suppression table: property name x owner type name -> dropped.
Dropped(prop, owner) ==
  \/ prop = "type" /\ owner \in {"Request", "Response", "Event"}
  \/ prop = "command" /\ owner \notin {"Request", "Response"}
  \/ prop = "event" /\ owner # "Event"
  \/ prop = "arguments" /\ owner = "Request"
  \/ prop = "body" /\ owner \in {"Response", "Event"}

FieldNames(block) == [i \in 1..Len(block.fields) |-> block.fields[i].json]

\* C1 (as amended): in every run that reaches its output, there is one
\* top-level type block per key of "definitions", and the top-level type
\* names are the keys in source order, each after the renaming of "Message"
\* to "ErrorMessage"; body types are not counted.  While the loop runs, the
\* blocks written are those of the keys before the loop index.
C1_TopLevelOrder ==
  /\ pc = "emit" =>
       TopNames(b) = [i \in 1..(next - 1) |-> Renamed(DefinitionKeys[i])]
  /\ exitCode = 0 =>
       TopNames(stdout) = [i \in 1..Len(DefinitionKeys) |-> Renamed(DefinitionKeys[i])]

\* C1 as stated: the emitted top-level type names equal the definition keys.
C1_Original ==
  exitCode = 0 => TopNames(stdout) = DefinitionKeys

\* A document of two different keys, one of them "Message", has been
\* printed, and one of its types came with a body type.
C1_Witness ==
  /\ exitCode = 0
  /\ Len(DefinitionKeys) = 2
  /\ DefinitionKeys[1] # DefinitionKeys[2]
  /\ \E i \in 1..2 : DefinitionKeys[i] = "Message"
  /\ \E i \in 1..2 : Len(TypeItems(stdout)[i].blocks) = 2

\* C2: the fields of every emitted struct, by JSON name, are the keys of its
\* "properties" in source order with the dropped ones removed: none is
\* reordered, duplicated or invented, and every kept property gives a field.
C2_FieldOrder ==
  EveryBlock(LAMBDA blk :
    LET Kept(prop) == ~Dropped(prop, blk.name) IN
    /\ blk.kind = "struct" => FieldNames(blk) = SelectSeq(DeclaredKeys(blk.desc), Kept)
    /\ blk.kind = "string" => blk.fields = <<>>)

\* A struct of two declared properties, the first dropped and the second
\* kept, and a struct whose two fields stand in source order.
C2_Witness ==
  /\ SomeBlock(LAMBDA blk :
       /\ Len(DeclaredKeys(blk.desc)) = 2
       /\ Dropped(DeclaredKeys(blk.desc)[1], blk.name)
       /\ FieldNames(blk) = <<DeclaredKeys(blk.desc)[2]>>)
  /\ SomeBlock(LAMBDA blk :
       /\ Len(blk.fields) = 2
       /\ FieldNames(blk) = <<"reason", "all_threads">>)

\* C3: a field's JSON tag lacks omitempty exactly when its property is
\* listed in "required" of the type's own description (the second allOf
\* element when allOf is used); without "required" every field has
\* omitempty.  The Body field is no exception.
C3_RequiredFidelity ==
  EveryBlock(LAMBDA blk :
    \A i \in 1..Len(blk.fields) :
      blk.fields[i].omitempty <=> blk.fields[i].json \notin RequiredSet(blk.desc))

\* A struct with a required Body field next to an optional field.
C3_Witness ==
  SomeBlock(LAMBDA blk :
    /\ Carries(blk.desc, "allOf")
    /\ \E i \in 1..Len(blk.fields) :
         blk.fields[i].json = "body" /\ ~blk.fields[i].omitempty
    /\ \E i \in 1..Len(blk.fields) :
         blk.fields[i].json # "body" /\ blk.fields[i].omitempty)

\* The named type a Go type expression ends in, under its "[]" and
\* "map[string]" prefixes.
RECURSIVE ElementType(_)
ElementType(goTypeExpr) ==
  IF Len(goTypeExpr) >= 2 /\ SubSeq(goTypeExpr, 1, 2) = "[]"
  THEN ElementType(SubSeq(goTypeExpr, 3, Len(goTypeExpr)))
  ELSE IF Len(goTypeExpr) >= 11 /\ SubSeq(goTypeExpr, 1, 11) = "map[string]"
  THEN ElementType(SubSeq(goTypeExpr, 12, Len(goTypeExpr)))
  ELSE goTypeExpr

\* The reference a property descriptor ends in, under its items and
\* additionalProperties; JNull when it ends in none.
RECURSIVE ReferenceIn(_)
ReferenceIn(d) ==
  IF d.t # "object" THEN JNull
  ELSE IF Carries(d, "$ref") THEN ValueOf(d, "$ref")
  ELSE IF Carries(d, "items") THEN ReferenceIn(ValueOf(d, "items"))
  ELSE IF Carries(d, "additionalProperties")
  THEN ReferenceIn(ValueOf(d, "additionalProperties"))
  ELSE JNull

\* C4: the definition keyed "Message" is emitted as ErrorMessage, and a
\* reference to "#/definitions/Message" resolves to ErrorMessage wherever it
\* stands (a property, array items, additionalProperties, the allOf base, a
\* referenced body); every other reference resolves to exactly its name.  No
\* type name, embedded base, field type or isMessage receiver is "Message".
C4_MessageRenamed ==
  /\ \A i \in 1..Len(TypeItems(b)) :
       /\ DefinitionKeys[i] = "Message" => TypeItems(b)[i].blocks[1].name = "ErrorMessage"
       /\ DefinitionKeys[i] # "Message" => TypeItems(b)[i].blocks[1].name = DefinitionKeys[i]
  /\ \A i \in 1..Len(b) : b[i].k = "isMessage" => b[i].name # "Message"
  /\ EveryBlock(LAMBDA blk :
       /\ blk.name # "Message"
       /\ blk.base # "Message"
       /\ blk.kind = "struct" /\ Carries(blk.desc, "allOf") =>
            LET ref == ValueOf(ValueOf(blk.desc, "allOf").a[1], "$ref") IN
            blk.base = IF ReferencedName(ref) = "Message" THEN "ErrorMessage"
                       ELSE ReferencedName(ref)
       /\ \A i \in 1..Len(blk.fields) :
            LET fld == blk.fields[i]
                ref == ReferenceIn(DeclaredProperty(blk.desc, fld.json))
            IN  /\ ElementType(fld.goType) # "Message"
                /\ ref # JNull =>
                     ElementType(fld.goType) =
                       IF ReferencedName(ref) = "Message" THEN "ErrorMessage"
                       ELSE ReferencedName(ref))

\* The definition keyed "Message" has been emitted as ErrorMessage, with the
\* base, an array field and a body field that refer to "Message" all
\* resolved to ErrorMessage.
C4_Witness ==
  /\ pc = "emit" /\ DefinitionKeys = <<"Message">>
  /\ SomeBlock(LAMBDA blk :
       /\ blk.name = "ErrorMessage" /\ blk.base = "ErrorMessage"
       /\ \E i \in 1..Len(blk.fields) : blk.fields[i].goType = "[]ErrorMessage"
       /\ \E i \in 1..Len(blk.fields) :
            blk.fields[i].json = "body" /\ blk.fields[i].goType = "ErrorMessage")

\* A description with "allOf" whose own description is of type object.
ObjectForm(desc) == ValueOf(OwnDescription(desc), "type") = JStr("object")

\* C5 (as amended): for a description with a two-element "allOf" whose
\* second element has type "object", the emitted struct embeds the type the
\* first element's reference resolves to (when that name is not empty) and
\* takes its fields, required set and type discriminator from the second
\* element only: keys of the outer description give no field.  When the
\* second element has type "string" the type is a string alias without a
\* base.  A description without "allOf" is emitted with no embedded base.
C5_Inheritance ==
  EveryBlock(LAMBDA blk :
    IF Carries(blk.desc, "allOf")
    THEN LET allOf == ValueOf(blk.desc, "allOf").a
             second == allOf[2]
         IN  /\ Len(allOf) = 2
             /\ blk.kind = IF ObjectForm(blk.desc) THEN "struct" ELSE "string"
             /\ blk.base = IF ObjectForm(blk.desc)
                           THEN Renamed(ReferencedName(ValueOf(allOf[1], "$ref")))
                           ELSE ""
             /\ \A i \in 1..Len(blk.fields) :
                  /\ Carries(second, "properties")
                  /\ Carries(ValueOf(second, "properties"), blk.fields[i].json)
                  /\ blk.fields[i].omitempty <=>
                       ~(/\ Carries(second, "required")
                         /\ \E k \in 1..Len(ValueOf(second, "required").a) :
                              ValueOf(second, "required").a[k] = JStr(blk.fields[i].json))
    ELSE blk.base = "")

\* C5 as stated: every description with a two-element "allOf" is emitted as
\* a struct whose first member is the resolved base type.
C5_Original ==
  EveryBlock(LAMBDA blk :
    Carries(blk.desc, "allOf") =>
      /\ blk.kind = "struct"
      /\ blk.base # ""
      /\ blk.base = Renamed(ReferencedName(ValueOf(ValueOf(blk.desc, "allOf").a[1], "$ref"))))

\* A struct with an embedded base and two fields of its second allOf
\* element has been emitted, from a description whose outer part has
\* properties of its own.
C5_Witness ==
  SomeBlock(LAMBDA blk :
    /\ Carries(blk.desc, "allOf") /\ Carries(blk.desc, "properties")
    /\ blk.kind = "struct" /\ blk.base = "ErrorMessage"
    /\ Len(blk.fields) = 2)

\* The type has a body property that is kept and described inline.
HasInlineBody(blk) ==
  /\ blk.kind = "struct"
  /\ \E i \in 1..Len(DeclaredKeys(blk.desc)) : DeclaredKeys(blk.desc)[i] = "body"
  /\ blk.name \notin {"Response", "Event"}
  /\ ~Carries(DeclaredProperty(blk.desc, "body"), "$ref")

\* C6: a type T other than Response and Event whose body is described
\* inline is followed at once, before the next top-level type, by exactly
\* one type named T+"Body" generated from that inline description, and T's
\* Body field has that type.  When the body carries a "$ref", or T is
\* Response or Event, T gets no body type.
C6_BodySynthesis ==
  \A i \in 1..Len(b) :
    b[i].k = "type" =>
      LET blocks == b[i].blocks IN
      /\ Len(blocks) = 1 + Cardinality({j \in 1..Len(blocks) : HasInlineBody(blocks[j])})
      /\ \A j \in 1..Len(blocks) :
           LET blk == blocks[j]
               named == {k \in 1..Len(blocks) : blocks[k].name = blk.name \o "Body"}
           IN  IF HasInlineBody(blk)
               THEN /\ named = {j + 1}
                    /\ blocks[j + 1].desc = DeclaredProperty(blk.desc, "body")
                    /\ \A k \in 1..Len(blk.fields) :
                         blk.fields[k].json = "body" =>
                           blk.fields[k].goType = blk.name \o "Body"
                                                  /\ blk.fields[k].goName = "Body"
               ELSE /\ named = {}
                    /\ \A k \in 1..Len(blk.fields) :
                         blk.fields[k].json = "body" =>
                           blk.fields[k].goType # blk.name \o "Body"

\* A type with an inline body has been emitted with its body type right
\* after it, holding the fields of the inline description.
C6_Witness ==
  \E i \in 1..Len(b) :
    /\ b[i].k = "type"
    /\ Len(b[i].blocks) = 2
    /\ b[i].blocks[1].name = "Request"
    /\ b[i].blocks[2].name = "RequestBody"
    /\ FieldNames(b[i].blocks[2]) = <<"reason", "all_threads">>
    /\ \E k \in 1..Len(b[i].blocks[1].fields) :
         b[i].blocks[1].fields[k].goType = "RequestBody"

\* C7: nothing is written to standard output in a run that ends with a
\* fatal condition, even after earlier definitions were processed; standard
\* output is written once, by the last step, with the formatted text of all
\* definitions and markers.
C7_NoPartialOutput ==
  /\ exitCode \in {1, 2} => stdout = <<>>
  /\ pc # "exited" => stdout = <<>> /\ exitCode = -1
  /\ stdout # <<>> =>
       /\ exitCode = 0
       /\ stdout = formatted /\ formatted = b
       /\ next = Len(typeNames) + 1
       /\ Len(TypeItems(stdout)) = Len(typeNames)

\* The run has ended fatally at a later definition, after an earlier one
\* had been written to the builder; standard output is empty.
C7_Witness ==
  /\ pc = "exited" /\ exitCode = 1
  /\ Len(TypeItems(b)) >= 1
  /\ next <= Len(typeNames)
  /\ stdout = <<>>

(***************************************************************************)
\* The five property names of the message hierarchy.
HierarchyNames == {"type", "command", "event", "arguments", "body"}

\* The top-level blocks written so far.
TopBlocks == {TypeItems(b)[i].blocks[1] : i \in 1..Len(TypeItems(b))}

\* A top-level struct together with its transitively embedded base types.
RECURSIVE EmbeddingChain(_, _)
EmbeddingChain(name, fuel) ==
  LET found == {blk \in TopBlocks : blk.name = name} IN
  IF fuel = 0 \/ found = {} THEN {}
  ELSE found \cup UNION {EmbeddingChain(blk.base, fuel - 1) : blk \in found}

Emits(blk, prop) == \E i \in 1..Len(blk.fields) : blk.fields[i].json = prop

Declares(typeName, prop) ==
  LET defs == ValueOf(run.data, "definitions") IN
  /\ Carries(defs, typeName)
  /\ \E i \in 1..Len(DeclaredKeys(ValueOf(defs, typeName))) :
       DeclaredKeys(ValueOf(defs, typeName))[i] = prop

AtMostOnce(prop) ==
  \A blk \in TopBlocks :
    Cardinality({c \in EmbeddingChain(blk.name, Len(b)) : Emits(c, prop)}) <= 1

\* The layout of the protocol's schema: ProtocolMessage declares neither
\* arguments nor body, Request declares no body, Response and Event declare
\* no arguments, and the types that extend them declare no type.
ProtocolLayout ==
  /\ ~Declares("ProtocolMessage", "arguments")
  /\ ~Declares("ProtocolMessage", "body")
  /\ ~Declares("Request", "body")
  /\ ~Declares("Response", "arguments")
  /\ ~Declares("Event", "arguments")
  /\ \A mid \in {"Request", "Response", "Event"} : ~Declares("Launch" \o mid, "type")

=============================================================================
